---- MODULE Spec2Model ----
(***************************************************************************)
(* Model of iaserver.py (ChatIA): the knowledge corpus and its ingestion,  *)
(* the keyword-overlap matcher, the chat handler with its completion       *)
(* fallback, and the session log with its timestamped archive.             *)
(*                                                                         *)
(* Strings are sequences of one-character strings, so that splitting,      *)
(* trimming, lowercasing and tokenising are computed as the code computes  *)
(* them.  A file is a record [kind, data]: absent, corrupt (content that   *)
(* json.load rejects with JSONDecodeError) or a parsed JSON list.          *)
(***************************************************************************)
EXTENDS Integers, Sequences, FiniteSets, TLC

\* ------------------------------------------------------------------------
\* Bounds
\* ------------------------------------------------------------------------

\* Number of requests (and clock ticks) served in one behaviour of Spec.
MaxSteps == 4

\* ------------------------------------------------------------------------
\* Characters
\* ------------------------------------------------------------------------

Whitespace == {" "}

\* Mutant of Terminators: only the full stop ends a sentence.
TerminatorsFullStop == {"."}

Terminators == {".", "!", "?"}

UpperToLower ==
  ("A" :> "a") @@ ("B" :> "b") @@ ("C" :> "c") @@ ("H" :> "h") @@
  ("T" :> "t") @@ ("O" :> "o")

\* \w of the re module, restricted to the characters the model uses.
WordChars ==
  {"a", "b", "c", "d", "e", "f", "h", "i", "k", "l", "n", "o", "r", "s",
   "t", "w", "m"} \cup DOMAIN UpperToLower

\* str.lower(), one character.
LowerChar(c) == IF c \in DOMAIN UpperToLower THEN UpperToLower[c] ELSE c

\* str.lower()
Lower(s) == [i \in 1..Len(s) |-> LowerChar(s[i])]

\* ------------------------------------------------------------------------
\* Sentence segmentation (add_to_knowledge, lines 78-79)
\* ------------------------------------------------------------------------

\* The end of the run of spaces that starts at i: the first index past it.
RECURSIVE SkipSpaces(_, _)
SkipSpaces(text, i) ==
  IF i <= Len(text) /\ text[i] = " " THEN SkipSpaces(text, i + 1) ELSE i

\* re.split(r'(?<=[.!?]) +', text): a separator is a maximal run of spaces
\* whose first space follows a terminator; the terminator stays with the
\* piece before it.  cur is the piece being read.
RECURSIVE SplitFrom(_, _, _)
SplitFrom(text, i, cur) ==
  IF i > Len(text) THEN <<cur>>
  ELSE IF text[i] = " " /\ i > 1 /\ text[i - 1] \in Terminators
       THEN <<cur>> \o SplitFrom(text, SkipSpaces(text, i), <<>>)
       ELSE SplitFrom(text, i + 1, Append(cur, text[i]))

Split(text) == SplitFrom(text, 1, <<>>)

RECURSIVE LStrip(_)
LStrip(s) ==
  IF s # <<>> /\ Head(s) \in Whitespace THEN LStrip(Tail(s)) ELSE s

RECURSIVE RStrip(_)
RStrip(s) ==
  IF s # <<>> /\ s[Len(s)] \in Whitespace
  THEN RStrip(SubSeq(s, 1, Len(s) - 1)) ELSE s

\* str.strip()
Strip(s) == RStrip(LStrip(s))

\* The length a candidate must exceed to be kept (line 79).
MinSentenceLen == 5

\* Mutant of KeepSentence: a candidate of exactly five characters is kept.
KeepSentenceFrom5(s) == Len(Strip(s)) >= MinSentenceLen

KeepSentence(s) == Len(Strip(s)) > MinSentenceLen

\* [s.strip() for s in sentences if len(s.strip()) > 5]
Sentences(text) ==
  LET kept == SelectSeq(Split(text), KeepSentence)
  IN  [i \in 1..Len(kept) |-> Strip(kept[i])]

\* ------------------------------------------------------------------------
\* Knowledge file (load_knowledge, save_knowledge)
\* ------------------------------------------------------------------------

Absent == [kind |-> "absent", data |-> <<>>]

Corrupt == [kind |-> "corrupt", data |-> <<>>]

JsonList(data) == [kind |-> "list", data |-> data]

\* Mutant of load_knowledge: what the file holds is not read.
load_knowledge_nothing(file) == <<>>

\* What load_knowledge returns.
load_knowledge(file) == IF file.kind = "list" THEN file.data ELSE <<>>

\* Mutant of load_knowledge_file: a file that does not parse is reset to [].
load_knowledge_file_reset(file) ==
  IF file.kind = "list" THEN file ELSE JsonList(<<>>)

\* What load_knowledge leaves on disk: an absent file is created as [].
load_knowledge_file(file) == IF file.kind = "absent" THEN JsonList(<<>>) ELSE file

\* save_knowledge: the whole file is rewritten.
save_knowledge(data) == JsonList(data)

InSeq(x, s) == \E i \in 1..Len(s) : s[i] = x

\* Mutant of NewSentences: every candidate counts as new.
NewSentencesAll(sentences, knowledge) == sentences

\* new = [s for s in sentences if s not in knowledge]
NewSentences(sentences, knowledge) ==
  LET Fresh(s) == ~InSeq(s, knowledge) IN SelectSeq(sentences, Fresh)

\* ------------------------------------------------------------------------
\* Session file (load_session, save_session)
\* ------------------------------------------------------------------------

\* A turn read from a file that has no 'timestamp' key.
NoTimestamp == -1

\* load_session: the stored list, or [] when the file is absent or corrupt.
load_session(file) == IF file.kind = "list" THEN file.data ELSE <<>>

\* The loop of save_session and save_session_timestamped: a turn without a
\* timestamp gets the current time.
Backfill(session, t) ==
  [i \in 1..Len(session) |->
     IF session[i].timestamp = NoTimestamp
     THEN [session[i] EXCEPT !.timestamp = t]
     ELSE session[i]]

\* save_session: backfill, then rewrite the whole file.
save_session(session, t) == JsonList(Backfill(session, t))

\* ------------------------------------------------------------------------
\* Keyword-overlap matcher (best_knowledge_match)
\* ------------------------------------------------------------------------

\* re.findall(r'\b\w+\b', s): the maximal runs of word characters, as a set.
RECURSIVE WordRuns(_, _, _, _)
WordRuns(s, i, cur, acc) ==
  LET closed == IF cur = <<>> THEN acc ELSE acc \cup {cur} IN
  IF i > Len(s) THEN closed
  ELSE IF s[i] \in WordChars
       THEN WordRuns(s, i + 1, Append(cur, s[i]), acc)
       ELSE WordRuns(s, i + 1, <<>>, closed)

\* set(re.findall(r'\b\w+\b', s.lower()))
Words(s) == WordRuns(Lower(s), 1, <<>>, {})

\* The score the best sentence must reach (line 127).
MatchThreshold == 3

\* Mutant of Better: an equal score replaces the best match.
BetterOrEqual(overlap, best_score) == overlap >= best_score

\* if overlap > best_score
Better(overlap, best_score) == overlap > best_score

\* The for loop of best_knowledge_match from sentence i on.
RECURSIVE MatchLoop(_, _, _, _, _)
MatchLoop(user_words, knowledge, i, best_match, best_score) ==
  IF i > Len(knowledge) THEN [match |-> best_match, score |-> best_score]
  ELSE LET overlap == Cardinality(user_words \cap Words(knowledge[i])) IN
       IF Better(overlap, best_score)
       THEN MatchLoop(user_words, knowledge, i + 1, knowledge[i], overlap)
       ELSE MatchLoop(user_words, knowledge, i + 1, best_match, best_score)

\* The None that best_knowledge_match returns.
None == [found |-> FALSE, sentence |-> <<>>]

\* return best_match if best_score >= 3 else None
Accept(best) ==
  IF best.score >= MatchThreshold
  THEN [found |-> TRUE, sentence |-> best.match]
  ELSE None

best_knowledge_match(user_input, knowledge) ==
  Accept(MatchLoop(Words(user_input), knowledge, 1, <<>>, 0))

\* ------------------------------------------------------------------------
\* Inputs
\* ------------------------------------------------------------------------

\* "Hello world. This is fine! Ok?"
Fixture ==
  <<"H", "e", "l", "l", "o", " ", "w", "o", "r", "l", "d", ".", " ", "T",
  "h", "i", "s", " ", "i", "s", " ", "f", "i", "n", "e", "!", " ", "O",
  "k", "?">>

\* "a b c d. a b c d." : one sentence twice in one text.
TextTwice ==
  <<"a", " ", "b", " ", "c", " ", "d", ".", " ", "a", " ", "b", " ", "c",
  " ", "d", ".">>

\* " A b c d.  a b c e. ab c. a b c d." : a leading space, a double space,
\* a fragment of exactly five characters, and a sentence of TextTwice.
TextMixed ==
  <<" ", "A", " ", "b", " ", "c", " ", "d", ".", " ", " ", "a", " ", "b",
  " ", "c", " ", "e", ".", " ", "a", "b", " ", "c", ".", " ", "a", " ",
  "b", " ", "c", " ", "d", ".">>

Texts == {Fixture, TextTwice, TextMixed}

\* " " : a message that is empty once stripped.
MsgBlank == <<" ">>

\* " a b" : two words.
MsgTwo == <<" ", "a", " ", "b">>

\* "A B c" : three words, two in upper case.
MsgThree == <<"A", " ", "B", " ", "c">>

\* "e c b a" : four words.
MsgFour == <<"e", " ", "c", " ", "b", " ", "a">>

Messages == {MsgBlank, MsgTwo, MsgThree, MsgFour}

\* What llm.create_completion does: it returns a text or raises an error.
Completions ==
  {[raised |-> FALSE, text |-> <<" ", "o", "k", " ">>],
   [raised |-> TRUE, text |-> <<"o", "o", "m">>]}

\* ------------------------------------------------------------------------
\* State
\* ------------------------------------------------------------------------

VARIABLES
  kfile,   \* knowledge.json
  sfile,   \* sessions/session.json
  snaps,   \* sessions/session_<stamp>.json: stamp -> file content
  now,     \* the clock that datetime.now() reads, in ticks
  steps,   \* actions taken so far
  last,    \* the last request served: what it was given and what it returned
  pc,      \* concurrent requests: where each one is in its handler
  req,     \* concurrent requests: the request each one serves
  mem,     \* concurrent requests: the list each one holds in memory
  seen     \* concurrent requests: who had saved when this one loaded

vars == <<kfile, sfile, snaps, now, steps, last, pc, req, mem, seen>>

\* Clock ticks per second of the archive's file name.
TicksPerSecond == 2

\* datetime.now().isoformat(): the full resolution of the clock.
isoformat(t) == t

\* datetime.now().strftime("%Y%m%d_%H%M%S"): the clock cut to the second.
strftime(t) == t \div TicksPerSecond

\* "Say something..."
SaySomething ==
  <<"S", "a", "y", " ", "s", "o", "m", "e", "t", "h", "i", "n", "g", ".",
    ".", ".">>

\* Mutant of ModelError: the reply does not say what the error was.
ModelErrorOnly(e) ==
  <<"warning sign", " ", "M", "o", "d", "e", "l", " ", "e", "r", "r", "o",
    "r">>

\* f"<warning sign> Model error: {e}"
ModelError(e) ==
  <<"warning sign", " ", "M", "o", "d", "e", "l", " ", "e", "r", "r", "o",
    "r", ":", " ">> \o e

\* The record of a request: n its serial number, op and arg what was asked,
\* kbefore the kind of knowledge file it found, prev the request before it;
\* added, reply and stamp what it returned; matched, llm and out how chat
\* got its reply (out is what the completion service returned or raised).
NoRequest ==
  [n |-> 0, op |-> "none", arg |-> <<>>, kbefore |-> "none",
   prev |-> [op |-> "none", arg |-> <<>>],
   added |-> 0, reply |-> <<>>, stamp |-> 0,
   matched |-> FALSE, llm |-> "none", out |-> <<>>]

Served(op, arg) ==
  [NoRequest EXCEPT !.n = last.n + 1, !.op = op, !.arg = arg,
                    !.kbefore = kfile.kind,
                    !.prev = [op |-> last.op, arg |-> last.arg]]

\* The two requests that are served at the same time.
Procs == {1, 2}

NothingSeen == [start |-> {}, load |-> {}]

IdleProcs ==
  /\ pc = [p \in Procs |-> "idle"]
  /\ req = [p \in Procs |-> NoRequest]
  /\ mem = [p \in Procs |-> <<>>]
  /\ seen = [p \in Procs |-> NothingSeen]

Init ==
  /\ kfile \in {Absent, Corrupt, JsonList(<<>>)}
  /\ sfile = Absent
  /\ snaps = <<>>
  /\ now = 0
  /\ steps = 0
  /\ last = NoRequest
  /\ IdleProcs

\* ------------------------------------------------------------------------
\* Requests served one at a time
\* ------------------------------------------------------------------------

\* add_to_knowledge(text), as /upload and /learn-url call it.
add_to_knowledge(text) ==
  LET sentences == Sentences(text)
      knowledge == load_knowledge(kfile)
      new       == NewSentences(sentences, knowledge)
  IN  /\ kfile' = save_knowledge(knowledge \o new)
      /\ last' = [Served("ingest", text) EXCEPT !.added = Len(new)]

Ingest ==
  /\ steps < MaxSteps
  /\ \E text \in Texts : add_to_knowledge(text)
  /\ steps' = steps + 1
  /\ UNCHANGED <<sfile, snaps, now, pc, req, mem, seen>>

\* if not matched_reply: None and the empty string both count as no match.
NoReply(m) == ~m.found \/ m.sentence = <<>>

\* The reply of the completion fallback (lines 145-153).
Fallback(c) == IF c.raised THEN ModelError(c.text) ELSE Strip(c.text)

\* Mutant of AppendTurn: the new turn replaces the log.
AppendTurnAlone(session, user_input, reply, t) ==
  save_session(
    <<[user |-> user_input, bot |-> reply, timestamp |-> isoformat(t)]>>, t)

\* session.append({...}); save_session(session)
AppendTurn(session, user_input, reply, t) ==
  save_session(
    Append(session,
           [user |-> user_input, bot |-> reply, timestamp |-> isoformat(t)]),
    t)

\* chat() with an empty message: the canned reply, nothing is read or stored.
ChatBlank ==
  /\ steps < MaxSteps
  /\ \E message \in Messages :
       /\ Strip(message) = <<>>
       /\ last' = [Served("chat", message) EXCEPT !.reply = SaySomething]
  /\ steps' = steps + 1
  /\ UNCHANGED <<kfile, sfile, snaps, now, pc, req, mem, seen>>

\* chat() answered from the knowledge corpus.
ChatMatched ==
  /\ steps < MaxSteps
  /\ \E message \in Messages :
       LET user_input == Strip(message)
           m == best_knowledge_match(user_input, load_knowledge(kfile))
       IN  /\ user_input # <<>>
           /\ ~NoReply(m)
           /\ kfile' = load_knowledge_file(kfile)
           /\ sfile' = AppendTurn(load_session(sfile), user_input,
                                  m.sentence, now)
           /\ last' = [Served("chat", message) EXCEPT
                         !.reply = m.sentence, !.matched = TRUE]
  /\ steps' = steps + 1
  /\ UNCHANGED <<snaps, now, pc, req, mem, seen>>

\* chat() answered by the completion service, or by its error.
ChatFallback ==
  /\ steps < MaxSteps
  /\ \E message \in Messages, c \in Completions :
       LET user_input == Strip(message)
           m == best_knowledge_match(user_input, load_knowledge(kfile))
       IN  /\ user_input # <<>>
           /\ NoReply(m)
           /\ kfile' = load_knowledge_file(kfile)
           /\ sfile' = AppendTurn(load_session(sfile), user_input,
                                  Fallback(c), now)
           /\ last' = [Served("chat", message) EXCEPT
                         !.reply = Fallback(c), !.out = c.text,
                         !.llm = IF c.raised THEN "raised" ELSE "returned"]
  /\ steps' = steps + 1
  /\ UNCHANGED <<snaps, now, pc, req, mem, seen>>

\* The file save_session_timestamped writes.
Snapshot(file, t) == JsonList(Backfill(load_session(file), t))

\* save_session_timestamped(), as /save-session calls it.
Archive ==
  /\ steps < MaxSteps
  /\ snaps' = (strftime(now) :> Snapshot(sfile, now)) @@ snaps
  /\ last' = [Served("archive", <<>>) EXCEPT !.stamp = strftime(now)]
  /\ steps' = steps + 1
  /\ UNCHANGED <<kfile, sfile, now, pc, req, mem, seen>>

\* The clock advances.
Tick ==
  /\ steps < MaxSteps
  /\ now' = now + 1
  /\ steps' = steps + 1
  /\ UNCHANGED <<kfile, sfile, snaps, last, pc, req, mem, seen>>

Next == Ingest \/ ChatBlank \/ ChatMatched \/ ChatFallback \/ Archive \/ Tick

Spec == Init /\ [][Next]_vars

\* ------------------------------------------------------------------------
\* Two requests served at the same time.  A step is what a handler does
\* between two accesses to a file; the handlers take no lock.
\* ------------------------------------------------------------------------

\* The requests that have finished.
Done == {q \in Procs : pc[q] = "done"}

\* os.path.exists(KNOWLEDGE_FILE) in load_knowledge: where the handler
\* goes next.
AfterExists(create, load) == IF kfile.kind = "absent" THEN create ELSE load

\* add_to_knowledge up to the existence test of load_knowledge.
IngestStart(p) ==
  /\ pc[p] = "idle"
  /\ \E text \in Texts :
       req' = [req EXCEPT ![p] = [NoRequest EXCEPT !.n = p, !.op = "ingest",
                                                  !.arg = text]]
  /\ pc' = [pc EXCEPT ![p] = AfterExists("k_create", "k_load")]
  /\ seen' = [seen EXCEPT ![p].start = Done]
  /\ UNCHANGED <<kfile, sfile, snaps, now, steps, last, mem>>

\* load_knowledge, lines 59-60: the file is opened for writing and gets [].
KnowledgeCreate(p) ==
  /\ pc[p] \in {"k_create", "c_create"}
  /\ kfile' = JsonList(<<>>)
  /\ pc' = [pc EXCEPT ![p] = IF pc[p] = "k_create" THEN "k_load" ELSE "c_load"]
  /\ UNCHANGED <<sfile, snaps, now, steps, last, req, mem, seen>>

\* load_knowledge, lines 61-65, in add_to_knowledge.
IngestLoad(p) ==
  /\ pc[p] = "k_load"
  /\ mem' = [mem EXCEPT ![p] = load_knowledge(kfile)]
  /\ seen' = [seen EXCEPT ![p].load = Done]
  /\ pc' = [pc EXCEPT ![p] = "k_save"]
  /\ UNCHANGED <<kfile, sfile, snaps, now, steps, last, req>>

\* add_to_knowledge, lines 81-84.
IngestSave(p) ==
  /\ pc[p] = "k_save"
  /\ LET new == NewSentences(Sentences(req[p].arg), mem[p])
     IN  /\ kfile' = save_knowledge(mem[p] \o new)
         /\ req' = [req EXCEPT ![p].added = Len(new)]
  /\ pc' = [pc EXCEPT ![p] = "done"]
  /\ UNCHANGED <<sfile, snaps, now, steps, last, mem, seen>>

\* chat up to the existence test of load_knowledge; an empty message is
\* answered at once.
ChatStart(p) ==
  /\ pc[p] = "idle"
  /\ \E message \in Messages :
       /\ req' = [req EXCEPT ![p] =
                    [NoRequest EXCEPT
                       !.n = p, !.op = "chat", !.arg = message,
                       !.reply = IF Strip(message) = <<>>
                                 THEN SaySomething ELSE <<>>]]
       /\ pc' = [pc EXCEPT ![p] = IF Strip(message) = <<>> THEN "done"
                                  ELSE AfterExists("c_create", "c_load")]
  /\ seen' = [seen EXCEPT ![p].start = Done]
  /\ UNCHANGED <<kfile, sfile, snaps, now, steps, last, mem>>

\* chat, lines 141-153: the corpus is read and the reply is chosen.
ChatReply(p) ==
  /\ pc[p] = "c_load"
  /\ LET m == best_knowledge_match(Strip(req[p].arg), load_knowledge(kfile))
     IN  IF NoReply(m)
         THEN \E c \in Completions :
                req' = [req EXCEPT
                          ![p].reply = Fallback(c), ![p].out = c.text,
                          ![p].llm = IF c.raised THEN "raised" ELSE "returned"]
         ELSE req' = [req EXCEPT ![p].reply = m.sentence, ![p].matched = TRUE]
  /\ pc' = [pc EXCEPT ![p] = "s_load"]
  /\ UNCHANGED <<kfile, sfile, snaps, now, steps, last, mem, seen>>

\* chat, lines 155-157: the session is read and the turn is appended to
\* the list in memory.
ChatLoad(p) ==
  /\ pc[p] = "s_load"
  /\ mem' = [mem EXCEPT ![p] =
               Append(load_session(sfile),
                      [user |-> Strip(req[p].arg), bot |-> req[p].reply,
                       timestamp |-> isoformat(now)])]
  /\ seen' = [seen EXCEPT ![p].load = Done]
  /\ pc' = [pc EXCEPT ![p] = "s_save"]
  /\ UNCHANGED <<kfile, sfile, snaps, now, steps, last, req>>

\* chat, line 158.
ChatSave(p) ==
  /\ pc[p] = "s_save"
  /\ sfile' = save_session(mem[p], now)
  /\ pc' = [pc EXCEPT ![p] = "done"]
  /\ UNCHANGED <<kfile, snaps, now, steps, last, req, mem, seen>>

NextConc ==
  \/ \E p \in Procs : IngestStart(p)
  \/ \E p \in Procs : KnowledgeCreate(p)
  \/ \E p \in Procs : IngestLoad(p)
  \/ \E p \in Procs : IngestSave(p)
  \/ \E p \in Procs : ChatStart(p)
  \/ \E p \in Procs : ChatReply(p)
  \/ \E p \in Procs : ChatLoad(p)
  \/ \E p \in Procs : ChatSave(p)
  \/ Tick

SpecConc == Init /\ [][NextConc]_vars

\* ------------------------------------------------------------------------
\* Properties
\* ------------------------------------------------------------------------

\* The step serves a request of kind op.
Serves(op) == last'.n # last.n /\ last'.op = op

\* C1: the persisted corpus never holds the same string twice, whatever
\* texts were ingested, a text that repeats a sentence included.
C1_NoDuplicateStrings ==
  kfile.kind = "list" =>
    \A i, j \in 1..Len(kfile.data) : i # j => kfile.data[i] # kfile.data[j]

\* C2: when add_to_knowledge is called with the text of the request before
\* it, whatever the corpus the first call started from, the second call
\* returns 0 and leaves the knowledge file as the first call left it.
C2_Idempotent ==
  [][(last.op = "ingest" /\ Serves("ingest") /\ last'.arg = last.arg)
       => (last'.added = 0 /\ kfile' = kfile)]_vars

\* A text with sentences has just been ingested twice in a row: the first
\* call stored them, the second added none.
C2_Witness ==
  /\ last.op = "ingest"
  /\ last.prev = [op |-> "ingest", arg |-> last.arg]
  /\ last.added = 0
  /\ kfile.kind = "list"
  /\ kfile.data # <<>>

\* "Hello world."
HelloWorld ==
  <<"H", "e", "l", "l", "o", " ", "w", "o", "r", "l", "d", ".">>

\* "This is fine!"
ThisIsFine ==
  <<"T", "h", "i", "s", " ", "i", "s", " ", "f", "i", "n", "e", "!">>

\* "Ok?"
Ok == <<"O", "k", "?">>

\* C8 as stated: ingesting the fixture into an empty corpus stores the
\* three sentences "Hello world.", "This is fine!", "Ok?".
C8_ThreeSentences ==
  [][(Serves("ingest") /\ last'.arg = Fixture /\ load_knowledge(kfile) = <<>>)
       => kfile' = JsonList(<<HelloWorld, ThisIsFine, Ok>>)]_vars

\* C8 as amended: ingesting the fixture into an empty corpus stores exactly
\* "Hello world." and "This is fine!", in this order, and returns 2; "Ok?"
\* has three characters and is dropped.
C8_TwoSentences ==
  [][(Serves("ingest") /\ last'.arg = Fixture /\ load_knowledge(kfile) = <<>>)
       => (kfile' = JsonList(<<HelloWorld, ThisIsFine>>) /\ last'.added = 2)]_vars

\* The fixture has been ingested into a corpus that was empty.
C8_Witness ==
  /\ last.op = "ingest"
  /\ last.arg = Fixture
  /\ last.added = 2
  /\ kfile = JsonList(<<HelloWorld, ThisIsFine>>)

\* The pieces of a text, trimmed, before any filter.
TrimmedPieces(text) == [i \in 1..Len(Split(text)) |-> Strip(Split(text)[i])]

\* C10: add_to_knowledge on a parseable corpus keeps the earlier corpus as a
\* prefix, appends exactly the trimmed pieces longer than 5 characters that
\* the earlier corpus did not hold, in text order, and returns the growth.
C10_AppendsNewCandidates ==
  [][(Serves("ingest") /\ kfile.kind = "list") =>
       LET earlier  == kfile.data
           Wanted(s) == Len(s) > 5 /\ \A i \in 1..Len(earlier) : earlier[i] # s
           appended == SelectSeq(TrimmedPieces(last'.arg), Wanted)
       IN  /\ kfile'.kind = "list"
           /\ kfile'.data = earlier \o appended
           /\ last'.added = Len(kfile'.data) - Len(earlier)]_vars

\* An ingestion into a non-empty corpus added some of its text's sentences
\* and left out others: one the corpus already held, and a short fragment.
C10_Witness ==
  /\ last.op = "ingest"
  /\ last.kbefore = "list"
  /\ last.added > 0
  /\ last.added < Len(Sentences(last.arg))
  /\ Len(Sentences(last.arg)) < Len(Split(last.arg))
  /\ Len(kfile.data) > last.added

\* The number of distinct lowercase word tokens two strings share.
Shared(a, b) == Cardinality(Words(a) \cap Words(b))

\* The largest number of tokens the utterance shares with a stored sentence.
Largest(utterance, corpus) ==
  IF corpus = <<>> THEN 0
  ELSE LET scores == {Shared(utterance, corpus[i]) : i \in 1..Len(corpus)}
       IN  CHOOSE n \in scores : \A k \in scores : k <= n

\* C3: for every utterance and the corpus at hand, best_knowledge_match
\* returns a sentence exactly when the largest overlap is at least 3, and
\* that sentence is the earliest of the corpus that reaches the largest
\* overlap.
C3_EarliestBestAtLeastThree ==
  \A message \in Messages :
    LET utterance == Strip(message)
        corpus    == load_knowledge(kfile)
        m         == best_knowledge_match(utterance, corpus)
        largest   == Largest(utterance, corpus)
    IN  /\ m.found <=> largest >= 3
        /\ ~m.found => m = None
        /\ m.found =>
             \E i \in 1..Len(corpus) :
               /\ Shared(utterance, corpus[i]) = largest
               /\ \A j \in 1..(i - 1) : Shared(utterance, corpus[j]) < largest
               /\ m.sentence = corpus[i]

\* A chat was answered from a corpus in which two different sentences share
\* exactly 3 tokens with the message, the largest overlap, and the reply is
\* the earlier of the two.
C3_Witness ==
  /\ last.op = "chat"
  /\ last.matched
  /\ LET utterance == Strip(last.arg)
         corpus    == load_knowledge(kfile)
     IN  /\ Largest(utterance, corpus) = 3
         /\ \E i, j \in 1..Len(corpus) :
              /\ i < j
              /\ corpus[i] # corpus[j]
              /\ Shared(utterance, corpus[i]) = 3
              /\ Shared(utterance, corpus[j]) = 3
              /\ \A k \in 1..(i - 1) : Shared(utterance, corpus[k]) < 3
              /\ last.reply = corpus[i]

\* The step appends to the session log one turn, with this user text, the
\* reply returned and a timestamp; the earlier log is the prefix before it.
TurnAppended(user) ==
  LET earlier == load_session(sfile) IN
  /\ sfile'.kind = "list"
  /\ Len(sfile'.data) = Len(earlier) + 1
  /\ SubSeq(sfile'.data, 1, Len(earlier)) = earlier
  /\ sfile'.data[Len(earlier) + 1].user = user
  /\ sfile'.data[Len(earlier) + 1].bot = last'.reply
  /\ sfile'.data[Len(earlier) + 1].timestamp # NoTimestamp

\* C4 as stated: every chat request with a non-empty message appends exactly
\* one turn that carries the request's message, the reply and a timestamp,
\* after the unchanged earlier log.
C4_TurnPerNonEmptyMessage ==
  [][(Serves("chat") /\ last'.arg # <<>>) => TurnAppended(last'.arg)]_vars

\* C4 as amended: every chat request whose message is not empty once
\* trimmed appends exactly one turn that carries the trimmed message, the
\* reply and a timestamp, after the unchanged earlier log.
C4_TurnPerTrimmedMessage ==
  [][(Serves("chat") /\ Strip(last'.arg) # <<>>)
       => TurnAppended(Strip(last'.arg))]_vars

\* Two chats in a row left their two turns at the end of the log, in call
\* order, the later one after a message that trimming changed.
C4_Witness ==
  /\ last.op = "chat"
  /\ last.prev.op = "chat"
  /\ Strip(last.arg) # <<>>
  /\ Strip(last.arg) # last.arg
  /\ Strip(last.prev.arg) # <<>>
  /\ Len(load_session(sfile)) >= 2
  /\ sfile.data[Len(sfile.data)].user = Strip(last.arg)
  /\ sfile.data[Len(sfile.data)].bot = last.reply
  /\ sfile.data[Len(sfile.data) - 1].user = Strip(last.prev.arg)

\* The string e occurs in the string s.
Embeds(s, e) ==
  \E i \in 1..(Len(s) - Len(e) + 1) : SubSeq(s, i, i + Len(e) - 1) = e

\* The step ends with a reply recorded as a new turn; the completion
\* service was called only if the matcher found nothing; if it raised, the
\* reply embeds the error description.
RepliedAndRecorded ==
  /\ sfile'.kind = "list"
  /\ Len(sfile'.data) = Len(load_session(sfile)) + 1
  /\ sfile'.data[Len(sfile'.data)].bot = last'.reply
  /\ last'.llm # "none" =>
       ~best_knowledge_match(Strip(last'.arg), load_knowledge(kfile)).found
  /\ last'.llm = "raised" => Embeds(last'.reply, last'.out)

\* C5 as stated: every chat request with a non-empty message ends with a
\* reply and a recorded turn; the completion service is called only after
\* no match, and its error becomes a reply that embeds the description.
C5_NonEmptyMessageRecorded ==
  [][(Serves("chat") /\ last'.arg # <<>>) => RepliedAndRecorded]_vars

\* C5 as amended: the same for every chat request whose message is not
\* empty once trimmed.
C5_TrimmedMessageRecorded ==
  [][(Serves("chat") /\ Strip(last'.arg) # <<>>) => RepliedAndRecorded]_vars

\* A chat found no match, the completion service raised, and the log ends
\* with a turn whose reply embeds the error description.
C5_Witness ==
  /\ last.op = "chat"
  /\ ~last.matched
  /\ last.llm = "raised"
  /\ last.out # <<>>
  /\ Embeds(last.reply, last.out)
  /\ sfile.kind = "list"
  /\ sfile.data[Len(sfile.data)].bot = last.reply

\* C6: an archive call writes the current session log to its snapshot file
\* and leaves the session log unchanged, and no step, a later archive call
\* in the same second included, changes a snapshot file written before.
C6_SnapshotsImmutable ==
  [][/\ \A k \in DOMAIN snaps : k \in DOMAIN snaps' /\ snaps'[k] = snaps[k]
     /\ Serves("archive") =>
          /\ snaps'[last'.stamp] = JsonList(load_session(sfile))
          /\ sfile' = sfile]_vars

\* C7: with a knowledge file that does not parse, a chat gets an empty
\* corpus (no match, a reply all the same) and leaves the file as it is, and
\* an ingestion rewrites the file as the list of the sentences of its text
\* alone.
C7_CorruptFileTolerated ==
  [][kfile.kind = "corrupt" =>
       /\ (Serves("chat") /\ Strip(last'.arg) # <<>>) =>
            (kfile' = kfile /\ ~last'.matched /\ last'.llm # "none")
       /\ Serves("chat") => kfile' = kfile
       /\ Serves("ingest") =>
            /\ kfile' = JsonList(Sentences(last'.arg))
            /\ last'.added = Len(Sentences(last'.arg))]_vars

\* The knowledge file did not parse, a chat was served, and the ingestion
\* after it left the file holding its own sentences only.
C7_Witness ==
  /\ last.op = "ingest"
  /\ last.kbefore = "corrupt"
  /\ last.prev.op = "chat"
  /\ Strip(last.prev.arg) # <<>>
  /\ sfile.kind = "list"
  /\ kfile = JsonList(Sentences(last.arg))
  /\ kfile.data # <<>>

\* Requests p and q are different, have finished, and both wrote the store
\* that requests of kind op write.
BothWrote(p, q, op) ==
  /\ p # q
  /\ pc[p] = "done" /\ pc[q] = "done"
  /\ req[p].op = op /\ req[q].op = op
  /\ Strip(req[p].arg) # <<>> /\ Strip(req[q].arg) # <<>>

\* q had finished when p started: the two ran one after the other.
RanAfter(p, q) == q \in seen[p].start

\* Each of p and q loaded the store before the other saved it.
BothLoadedFirst(p, q) == q \notin seen[p].load /\ p \notin seen[q].load

\* Every sentence of the text of request p is in the knowledge file.
AdditionsHeld(p) ==
  \A i \in 1..Len(Sentences(req[p].arg)) :
    InSeq(Sentences(req[p].arg)[i], load_knowledge(kfile))

\* The turn of request p is turn i of the session file.
TurnHeld(p, i) ==
  /\ sfile.data[i].user = Strip(req[p].arg)
  /\ sfile.data[i].bot = req[p].reply

\* C9: of two ingestions, or two chats, that have both finished: if one
\* ran after the other, the store holds the additions of both; if both
\* loaded the store before either saved, both read the same state and the
\* store holds that state followed by the additions of one request alone.
C9_LostUpdateWhenOverlapped ==
  \A p, q \in Procs :
    /\ (BothWrote(p, q, "ingest") /\ RanAfter(p, q)) =>
         (AdditionsHeld(p) /\ AdditionsHeld(q))
    /\ (BothWrote(p, q, "ingest") /\ BothLoadedFirst(p, q)) =>
         /\ mem[p] = mem[q]
         /\ \E w \in {p, q} :
              kfile = JsonList(mem[w] \o
                               NewSentences(Sentences(req[w].arg), mem[w]))
    /\ (BothWrote(p, q, "chat") /\ RanAfter(p, q)) =>
         (Len(load_session(sfile)) = 2 /\ TurnHeld(q, 1) /\ TurnHeld(p, 2))
    /\ (BothWrote(p, q, "chat") /\ BothLoadedFirst(p, q)) =>
         /\ Len(load_session(sfile)) = 1
         /\ TurnHeld(p, 1) \/ TurnHeld(q, 1)

\* Two ingestions both loaded the corpus before either saved, and at the
\* end the file holds the sentences of one and lacks sentences of the other.
C9_Witness ==
  \E p, q \in Procs :
    /\ BothWrote(p, q, "ingest")
    /\ BothLoadedFirst(p, q)
    /\ Sentences(req[p].arg) # <<>>
    /\ AdditionsHeld(q)
    /\ ~AdditionsHeld(p)

====
